---- MODULE Spec2Model ----
(***************************************************************************)
(* ahrs-rs: the Madgwick (gradient-descent) and Mahony (complementary)     *)
(* orientation filters of src/src/madgwick.rs and src/src/mahony.rs.       *)
(*                                                                         *)
(* Scalars of the generic float type N are fixed-point integers: the       *)
(* integer x stands for x / Scale, every product and quotient is rounded   *)
(* to the nearest representable value as a float operation rounds.  The    *)
(* quotient 0/0 is the value NaN.  A vector or quaternion is the sequence  *)
(* of its coordinates in nalgebra's storage order, so that the source's    *)
(* 0-based q[n] is At(q, n): a quaternion is <<i, j, k, w>>.               *)
(***************************************************************************)
EXTENDS Integers, Sequences, FiniteSets, TLC

\* Fractional bits of the fixed-point scalars.
FracBits == 10
\* Longest sequence of update calls on one instance.
MaxCalls == 2

Scale == 2^FracBits
\* IEEE not-a-number: an integer no computation of the model produces.
NaN == -(2^30)

Abs(x) == IF x < 0 THEN -x ELSE x

\* n / d rounded to the nearest integer, d > 0.
RoundDiv(n, d) == (2 * n + d) \div (2 * d)

\* The literal num/den converted to N; a non-zero literal stays non-zero.
FromRatio(num, den) ==
    LET r == RoundDiv(num * Scale, den)
    IN  IF num # 0 /\ r = 0 THEN 1 ELSE r

zero == 0
one == Scale
two == 2 * Scale
four == 4 * Scale
half == Scale \div 2

Mul(a, b) == RoundDiv(a * b, Scale)

RECURSIVE SqrtSearch(_, _, _)
SqrtSearch(n, lo, hi) ==
    IF lo >= hi THEN lo
    ELSE LET mid == (lo + hi + 1) \div 2
         IN  IF mid * mid <= n THEN SqrtSearch(n, mid, hi)
             ELSE SqrtSearch(n, lo, mid - 1)

\* sqrt of n (a sum of squares, in units of 1/Scale^2), to the nearest.
Sqrt(n) ==
    LET r == SqrtSearch(n, 0, 46340)
    IN  IF n - r * r > r THEN r + 1 ELSE r

At(v, n) == v[n + 1]

RECURSIVE SumSq(_)
SumSq(v) == IF v = <<>> THEN 0 ELSE Head(v) * Head(v) + SumSq(Tail(v))

IsNaNV(v) == \E n \in DOMAIN v : v[n] = NaN
NaNV(len) == [n \in 1..len |-> NaN]

\* Matrix::norm: the Euclidean norm.
Norm(v) == Sqrt(SumSq(v))

\* Matrix::unscale: every coordinate divided by s; 0/0 is NaN.
Unscale(v, s) ==
    IF s = 0 \/ IsNaNV(v) THEN NaNV(Len(v))
    ELSE [n \in DOMAIN v |-> RoundDiv(v[n] * Scale, s)]

VScale(v, s) == IF IsNaNV(v) THEN v ELSE [n \in DOMAIN v |-> Mul(v[n], s)]
VAdd(u, v) ==
    IF IsNaNV(u) \/ IsNaNV(v) THEN NaNV(Len(u))
    ELSE [n \in DOMAIN u |-> u[n] + v[n]]
VSub(u, v) ==
    IF IsNaNV(u) \/ IsNaNV(v) THEN NaNV(Len(u))
    ELSE [n \in DOMAIN u |-> u[n] - v[n]]

\* Matrix::try_normalize(min_norm): None when the norm is <= min_norm.
NormalizedBy(v, n, min_norm) ==
    IF n <= min_norm THEN [some |-> FALSE, v |-> v]
    ELSE [some |-> TRUE, v |-> Unscale(v, n)]
TryNormalize(v, min_norm) == NormalizedBy(v, Norm(v), min_norm)

\* Quaternion::new(w, i, j, k) and Quaternion::from_parts(w, vector).
QuaternionNew(w, i, j, k) == <<i, j, k, w>>
FromParts(w, v) == <<v[1], v[2], v[3], w>>
Identity == QuaternionNew(one, zero, zero, zero)
Conjugate(q) == <<-q[1], -q[2], -q[3], q[4]>>

\* Hamilton product p * q.
QMul(p, q) ==
    IF IsNaNV(p) \/ IsNaNV(q) THEN NaNV(4)
    ELSE LET pw == p[4]  pi == p[1]  pj == p[2]  pk == p[3]
             qw == q[4]  qi == q[1]  qj == q[2]  qk == q[3]
         IN  QuaternionNew(
                 Mul(pw, qw) - Mul(pi, qi) - Mul(pj, qj) - Mul(pk, qk),
                 Mul(pw, qi) + Mul(pi, qw) + Mul(pj, qk) - Mul(pk, qj),
                 Mul(pw, qj) - Mul(pi, qk) + Mul(pj, qw) + Mul(pk, qi),
                 Mul(pw, qk) + Mul(pi, qj) - Mul(pj, qi) + Mul(pk, qw))

\* == of two vectors or quaternions: coordinate by coordinate, and a NaN is
\* equal to nothing.
QuatEq(p, q) == ~IsNaNV(p) /\ ~IsNaNV(q) /\ p = q

\* Vector3::cross.
Cross(a, b) ==
    <<Mul(a[2], b[3]) - Mul(a[3], b[2]),
      Mul(a[3], b[1]) - Mul(a[1], b[3]),
      Mul(a[1], b[2]) - Mul(a[2], b[1])>>

\* Quaternion::normalize and UnitQuaternion::from_quaternion: q / norm(q).
Normalize(q) == IF IsNaNV(q) THEN q ELSE Unscale(q, Norm(q))

\* Row r of matrix m times the column vector v.
RECURSIVE Dot(_, _)
Dot(r, v) == IF r = <<>> THEN 0 ELSE Mul(Head(r), Head(v)) + Dot(Tail(r), Tail(v))
MatVec(m, v) == [r \in DOMAIN m |-> Dot(m[r], v)]

\* An integration step that does not re-normalize.
IntegrateUnnormalized(q, qDot, sample_period) == VAdd(q, VScale(qDot, sample_period))

\* self.quat = normalize(q + qDot * self.sample_period)
Integrate(q, qDot, sample_period) == Normalize(VAdd(q, VScale(qDot, sample_period)))

Ok(quat) == [ok |-> TRUE, err |-> "none", quat |-> quat]
Err(e) == [ok |-> FALSE, err |-> e, quat |-> <<>>]

\* A store that also adapts the gain: beta is halved after every step.
Stored_adaptive(self, quat) ==
    [self |-> IF self.kind = "Madgwick"
              THEN [self EXCEPT !.quat = quat, !.beta = Mul(self.beta, half)]
              ELSE [self EXCEPT !.quat = quat],
     res |-> Ok(quat)]

\* self.quat = quat; Ok(&self.quat)
Stored(self, quat) == [self |-> [self EXCEPT !.quat = quat], res |-> Ok(quat)]
\* return Err(e): self is left as it is.
Failed(self, e) == [self |-> self, res |-> Err(e)]

(***************************************************************************)
(* Madgwick: src/src/madgwick.rs                                           *)
(***************************************************************************)

\* Madgwick::new_with_quat
Madgwick_new_with_quat(sample_period, beta, delta, quat) ==
    [kind |-> "Madgwick", sample_period |-> sample_period, beta |-> beta,
     delta |-> delta, quat |-> quat]

\* Madgwick::new
Madgwick_new(sample_period, beta, delta) ==
    Madgwick_new_with_quat(sample_period, beta, delta,
                           QuaternionNew(one, zero, zero, zero))

\* A default without the stabilizer: delta is zero.
Madgwick_default_unstabilized ==
    [kind |-> "Madgwick", sample_period |-> FromRatio(1, 256),
     beta |-> FromRatio(1, 10),
     quat |-> QuaternionNew(one, zero, zero, zero),
     delta |-> zero]

\* Default for Madgwick<f64>
Madgwick_default ==
    [kind |-> "Madgwick", sample_period |-> FromRatio(1, 256),
     beta |-> FromRatio(1, 10),
     quat |-> QuaternionNew(one, zero, zero, zero),
     delta |-> FromRatio(1, 10^9)]

\* A clone that leaves delta at the default stabilizer.
Madgwick_clone_default_delta(self) ==
    [kind |-> "Madgwick", sample_period |-> self.sample_period,
     beta |-> self.beta, delta |-> FromRatio(1, 10^9), quat |-> self.quat]

\* Clone for Madgwick
Madgwick_clone(self) ==
    [kind |-> "Madgwick", sample_period |-> self.sample_period,
     beta |-> self.beta, delta |-> self.delta, quat |-> self.quat]

\* PartialEq for Madgwick: sample_period, beta and quat are compared.
Madgwick_eq(self, rhs) ==
    /\ self.sample_period = rhs.sample_period
    /\ self.beta = rhs.beta
    /\ QuatEq(self.quat, rhs.quat)

\* Reference direction of Earth's magnetic field.
MagneticReference(q, mag) ==
    LET h == QMul(q, QMul(FromParts(zero, mag), Conjugate(q)))
    IN  QuaternionNew(zero, Norm(<<At(h, 0), At(h, 1)>>), zero, At(h, 2))

\* The step of the revisions without a stabilizer: prod over its norm.
PlainStep(prod, delta) == Unscale(prod, Norm(prod))

\* let step = prod.unscale(prod.norm() + self.delta);
StabilizedStep(prod, delta) == Unscale(prod, Norm(prod) + delta)

\* The rate of change with the step of opposite sign.
RateOfChange_ascent(q, gyroscope, step, beta) ==
    VAdd(VScale(QMul(q, FromParts(zero, gyroscope)), half),
         VScale(QuaternionNew(At(step, 0), At(step, 1), At(step, 2), At(step, 3)),
                beta))

\* The gyroscope's rate of change minus beta times the gradient step.
RateOfChange(q, gyroscope, step, beta) ==
    VSub(VScale(QMul(q, FromParts(zero, gyroscope)), half),
         VScale(QuaternionNew(At(step, 0), At(step, 1), At(step, 2), At(step, 3)),
                beta))

\* prod = J_t * F of Madgwick::update_imu.
Madgwick_update_imu_prod(q, accel) ==
    LET q0 == At(q, 0)  q1 == At(q, 1)  q2 == At(q, 2)  q3 == At(q, 3)
        F == << Mul(two, Mul(q0, q2) - Mul(q3, q1)) - At(accel, 0),
                Mul(two, Mul(q3, q0) + Mul(q1, q2)) - At(accel, 1),
                Mul(two, half - Mul(q0, q0) - Mul(q1, q1)) - At(accel, 2),
                zero >>
        J_t == << << Mul(-two, q1), Mul(two, q0), zero, zero >>,
                  << Mul(two, q2), Mul(two, q3), Mul(-four, q0), zero >>,
                  << Mul(-two, q3), Mul(two, q2), Mul(-four, q1), zero >>,
                  << Mul(two, q0), Mul(two, q1), zero, zero >> >>
    IN  MatVec(J_t, F)

\* The gradient-descent step of Madgwick::update_imu and the integration.
Madgwick_update_imu_correct(self, q, gyroscope, accel) ==
    Integrate(q,
              RateOfChange(q, gyroscope,
                           StabilizedStep(Madgwick_update_imu_prod(q, accel),
                                          self.delta),
                           self.beta),
              self.sample_period)

\* The quaternion Madgwick::update_imu stores when the normalization succeeds.
Madgwick_update_imu_quat(self, gyroscope, accel) ==
    IF IsNaNV(self.quat) THEN NaNV(4)
    ELSE Madgwick_update_imu_correct(self, self.quat, gyroscope, accel)

\* update_gyro written as update_imu without an accelerometer residual: the
\* correction term stays in the rate of change.
Madgwick_update_gyro_corrected(self, gyroscope) ==
    Stored(self, Madgwick_update_imu_quat(self, gyroscope, <<zero, zero, zero>>))

\* Madgwick::update_gyro
Madgwick_update_gyro(self, gyroscope) ==
    Stored(self, Integrate(self.quat,
                           VScale(QMul(self.quat, FromParts(zero, gyroscope)), half),
                           self.sample_period))

\* update_imu that falls back to dead reckoning on a zero accelerometer.
Madgwick_update_imu_gyro_fallback(self, gyroscope, accel) ==
    IF ~accel.some THEN Madgwick_update_gyro(self, gyroscope)
    ELSE Stored(self, Madgwick_update_imu_quat(self, gyroscope, accel.v))

\* update_imu that integrates the gyroscope before it validates accel.
Madgwick_update_imu_late_check(self, gyroscope, accel) ==
    IF ~accel.some
    THEN [self |-> Madgwick_update_gyro(self, gyroscope).self,
          res |-> Err("AccelerometerNormZero")]
    ELSE Stored(self, Madgwick_update_imu_quat(self, gyroscope, accel.v))

\* update_imu that refuses to run on a stored quaternion that is not a number.
Madgwick_update_imu_nan_checked(self, gyroscope, accel) ==
    IF ~accel.some THEN Failed(self, "AccelerometerNormZero")
    ELSE IF IsNaNV(self.quat) THEN Failed(self, "DivByZero")
    ELSE Stored(self, Madgwick_update_imu_quat(self, gyroscope, accel.v))

\* Madgwick::update_imu once try_normalize has given accel.
Madgwick_update_imu_matched(self, gyroscope, accel) ==
    IF ~accel.some THEN Failed(self, "AccelerometerNormZero")
    ELSE Stored(self, Madgwick_update_imu_quat(self, gyroscope, accel.v))

\* Madgwick::update_imu
Madgwick_update_imu(self, gyroscope, accelerometer) ==
    Madgwick_update_imu_matched(self, gyroscope, TryNormalize(accelerometer, zero))

\* prod = J_t * F of Madgwick::update, with b the reference direction of the
\* magnetic field.
Madgwick_update_prod(q, b, accel, mag) ==
    LET q0 == At(q, 0)  q1 == At(q, 1)  q2 == At(q, 2)  q3 == At(q, 3)
        b0 == At(b, 0)  b2 == At(b, 2)
        F == << Mul(two, Mul(q0, q2) - Mul(q3, q1)) - At(accel, 0),
                Mul(two, Mul(q3, q0) + Mul(q1, q2)) - At(accel, 1),
                Mul(two, half - Mul(q0, q0) - Mul(q1, q1)) - At(accel, 2),
                Mul(Mul(two, b0), half - Mul(q1, q1) - Mul(q2, q2))
                  + Mul(Mul(two, b2), Mul(q0, q2) - Mul(q3, q1)) - At(mag, 0),
                Mul(Mul(two, b0), Mul(q0, q1) - Mul(q3, q2))
                  + Mul(Mul(two, b2), Mul(q3, q0) + Mul(q1, q2)) - At(mag, 1),
                Mul(Mul(two, b0), Mul(q3, q1) + Mul(q0, q2))
                  + Mul(Mul(two, b2), half - Mul(q0, q0) - Mul(q1, q1)) - At(mag, 2) >>
        J_t == <<
          << Mul(-two, q1), Mul(two, q0), zero,
             Mul(Mul(-two, b2), q1),
             Mul(Mul(-two, b0), q2) + Mul(Mul(two, b2), q0),
             Mul(Mul(two, b0), q1) >>,
          << Mul(two, q2), Mul(two, q3), Mul(-four, q0),
             Mul(Mul(two, b2), q2),
             Mul(Mul(two, b0), q1) + Mul(Mul(two, b2), q3),
             Mul(Mul(two, b0), q2) - Mul(Mul(four, b2), q0) >>,
          << Mul(-two, q3), Mul(two, q2), Mul(-four, q1),
             Mul(Mul(-four, b0), q1) - Mul(Mul(two, b2), q3),
             Mul(Mul(two, b0), q0) + Mul(Mul(two, b2), q2),
             Mul(Mul(two, b0), q3) - Mul(Mul(four, b2), q1) >>,
          << Mul(two, q0), Mul(two, q1), zero,
             Mul(Mul(-four, b0), q2) + Mul(Mul(two, b2), q0),
             Mul(Mul(-two, b0), q3) + Mul(Mul(two, b2), q1),
             Mul(Mul(two, b0), q0) >>,
          << zero, zero, zero, zero, zero, zero >>,
          << zero, zero, zero, zero, zero, zero >> >>
    IN  MatVec(J_t, F)

\* The gradient-descent step of Madgwick::update and the integration.
Madgwick_update_correct(self, q, b, gyroscope, accel, mag) ==
    Integrate(q,
              RateOfChange(q, gyroscope,
                           StabilizedStep(Madgwick_update_prod(q, b, accel, mag),
                                          self.delta),
                           self.beta),
              self.sample_period)

\* The quaternion Madgwick::update stores when both normalizations succeed.
Madgwick_update_quat(self, gyroscope, accel, mag) ==
    IF IsNaNV(self.quat) THEN NaNV(4)
    ELSE Madgwick_update_correct(self, self.quat,
                                 MagneticReference(self.quat, mag),
                                 gyroscope, accel, mag)

\* update that validates the magnetometer before the accelerometer.
Madgwick_update_mag_first(self, gyroscope, accel, mag) ==
    IF ~mag.some THEN Failed(self, "MagnetometerNormZero")
    ELSE IF ~accel.some THEN Failed(self, "AccelerometerNormZero")
    ELSE Stored(self, Madgwick_update_quat(self, gyroscope, accel.v, mag.v))

\* update that falls back to update_imu on a zero magnetometer.
Madgwick_update_imu_fallback(self, gyroscope, accel, mag) ==
    IF ~accel.some THEN Failed(self, "AccelerometerNormZero")
    ELSE IF ~mag.some
    THEN Stored(self, Madgwick_update_imu_quat(self, gyroscope, accel.v))
    ELSE Stored(self, Madgwick_update_quat(self, gyroscope, accel.v, mag.v))

\* Madgwick::update once try_normalize has given accel and mag.
Madgwick_update_matched(self, gyroscope, accel, mag) ==
    IF ~accel.some THEN Failed(self, "AccelerometerNormZero")
    ELSE IF ~mag.some THEN Failed(self, "MagnetometerNormZero")
    ELSE Stored(self, Madgwick_update_quat(self, gyroscope, accel.v, mag.v))

\* Madgwick::update
Madgwick_update(self, gyroscope, accelerometer, magnetometer) ==
    Madgwick_update_matched(self, gyroscope, TryNormalize(accelerometer, zero),
                            TryNormalize(magnetometer, zero))

(***************************************************************************)
(* Mahony: src/src/mahony.rs                                               *)
(***************************************************************************)

\* Mahony::new_with_quat
Mahony_new_with_quat(sample_period, kp, ki, quat) ==
    [kind |-> "Mahony", sample_period |-> sample_period, kp |-> kp, ki |-> ki,
     e_int |-> <<zero, zero, zero>>, quat |-> quat]

\* Mahony::new
Mahony_new(sample_period, kp, ki) ==
    Mahony_new_with_quat(sample_period, kp, ki,
                         FromParts(one, <<zero, zero, zero>>))

\* Default for Mahony<f64>
Mahony_default ==
    [kind |-> "Mahony", sample_period |-> FromRatio(1, 256),
     kp |-> FromRatio(1, 2), ki |-> FromRatio(0, 1),
     e_int |-> <<zero, zero, zero>>,
     quat |-> QuaternionNew(one, zero, zero, zero)]

\* Clone for Mahony
Mahony_clone(self) ==
    [kind |-> "Mahony", sample_period |-> self.sample_period, kp |-> self.kp,
     ki |-> self.ki, e_int |-> self.e_int, quat |-> self.quat]

\* PartialEq for Mahony: every field is compared.
Mahony_eq(self, rhs) ==
    /\ self.sample_period = rhs.sample_period
    /\ self.kp = rhs.kp
    /\ self.ki = rhs.ki
    /\ QuatEq(self.e_int, rhs.e_int)
    /\ QuatEq(self.quat, rhs.quat)

\* v: the direction of gravity the quaternion implies.
Mahony_v(q) ==
    LET q0 == At(q, 0)  q1 == At(q, 1)  q2 == At(q, 2)  q3 == At(q, 3)
    IN  << Mul(two, Mul(q0, q2) - Mul(q3, q1)),
           Mul(two, Mul(q3, q0) + Mul(q1, q2)),
           Mul(q3, q3) - Mul(q0, q0) - Mul(q1, q1) + Mul(q2, q2) >>

\* w: the direction of the magnetic field the quaternion and b imply.
Mahony_w(q, b) ==
    LET q0 == At(q, 0)  q1 == At(q, 1)  q2 == At(q, 2)  q3 == At(q, 3)
        b0 == At(b, 0)  b2 == At(b, 2)
    IN  << Mul(Mul(two, b0), half - Mul(q1, q1) - Mul(q2, q2))
             + Mul(Mul(two, b2), Mul(q0, q2) - Mul(q3, q1)),
           Mul(Mul(two, b0), Mul(q0, q1) - Mul(q3, q2))
             + Mul(Mul(two, b2), Mul(q3, q0) + Mul(q1, q2)),
           Mul(Mul(two, b0), Mul(q3, q1) + Mul(q0, q2))
             + Mul(Mul(two, b2), half - Mul(q0, q0) - Mul(q1, q1)) >>

\* e of Mahony::update: accel.cross(&v) + mag.cross(&w)
Mahony_update_e(q, accel, mag) ==
    IF IsNaNV(q) THEN NaNV(3)
    ELSE VAdd(Cross(accel, Mahony_v(q)),
              Cross(mag, Mahony_w(q, MagneticReference(q, mag))))

\* e of Mahony::update_imu: accel.cross(&v)
Mahony_update_imu_e(q, accel) ==
    IF IsNaNV(q) THEN NaNV(3) ELSE Cross(accel, Mahony_v(q))

\* An accumulator that freezes, instead of resetting, when ki is not > 0.
Mahony_e_int_frozen(self, e) ==
    IF self.ki > zero THEN VAdd(self.e_int, VScale(e, self.sample_period))
    ELSE self.e_int

\* if self.ki > zero { self.e_int += e * self.sample_period } else { zero }
Mahony_e_int(self, e) ==
    IF self.ki > zero THEN VAdd(self.e_int, VScale(e, self.sample_period))
    ELSE <<zero, zero, zero>>

\* gyro = gyroscope + e * kp + e_int * ki, the rate of change and the
\* integration, with e_int the accumulator as just updated.
Mahony_integrate(self, gyroscope, e, e_int) ==
    Integrate(self.quat,
              VScale(QMul(self.quat,
                          FromParts(zero,
                                    VAdd(VAdd(gyroscope, VScale(e, self.kp)),
                                         VScale(e_int, self.ki)))),
                     half),
              self.sample_period)

\* self.e_int and self.quat are assigned; Ok(&self.quat)
Mahony_stored(self, e_int, quat) ==
    [self |-> [self EXCEPT !.e_int = e_int, !.quat = quat], res |-> Ok(quat)]

\* What both updates do once the error e is known.
Mahony_accumulated(self, gyroscope, e, e_int) ==
    Mahony_stored(self, e_int, Mahony_integrate(self, gyroscope, e, e_int))

Mahony_feedback(self, gyroscope, e) ==
    Mahony_accumulated(self, gyroscope, e, Mahony_e_int(self, e))

\* update that resets a disabled accumulator before it validates its inputs.
Mahony_update_reset_first(self, gyroscope, accel, mag) ==
    IF ~accel.some \/ ~mag.some
    THEN Failed([self EXCEPT !.e_int = IF self.ki > zero THEN self.e_int
                                       ELSE <<zero, zero, zero>>],
                "DivByZero")
    ELSE Mahony_feedback(self, gyroscope, Mahony_update_e(self.quat, accel.v, mag.v))

\* Mahony::update once try_normalize has given accel and mag.
Mahony_update_matched(self, gyroscope, accel, mag) ==
    IF ~accel.some THEN Failed(self, "DivByZero")
    ELSE IF ~mag.some THEN Failed(self, "DivByZero")
    ELSE Mahony_feedback(self, gyroscope, Mahony_update_e(self.quat, accel.v, mag.v))

\* Mahony::update
Mahony_update(self, gyroscope, accelerometer, magnetometer) ==
    Mahony_update_matched(self, gyroscope, TryNormalize(accelerometer, zero),
                          TryNormalize(magnetometer, zero))

\* Mahony::update_imu once try_normalize has given accel.
Mahony_update_imu_matched(self, gyroscope, accel) ==
    IF ~accel.some THEN Failed(self, "DivByZero")
    ELSE Mahony_feedback(self, gyroscope, Mahony_update_imu_e(self.quat, accel.v))

\* Mahony::update_imu
Mahony_update_imu(self, gyroscope, accelerometer) ==
    Mahony_update_imu_matched(self, gyroscope, TryNormalize(accelerometer, zero))

(***************************************************************************)
(* One filter instance and its caller.                                     *)
(***************************************************************************)

VARIABLES
    ahrs,    \* the filter instance
    res,     \* what the last call on ahrs returned
    last,    \* the last call: its operation, its inputs, ahrs before it
    skip,    \* an instance built like ahrs that is fed only the calls that succeed
    twin,    \* the clone of ahrs, fed every call ahrs is fed; NoTwin before the clone
    tres,    \* what the last call on twin returned
    calls,   \* calls made so far
    nfail    \* calls that returned an error so far

vars == <<ahrs, res, last, skip, twin, tres, calls, nfail>>

NoTwin == [kind |-> "none"]
NoRes == [ok |-> FALSE, err |-> "no call", quat |-> <<>>]
NoCall == [op |-> "none", gyroscope |-> <<>>, accelerometer |-> <<>>,
           magnetometer |-> <<>>, pre |-> NoTwin]

\* Sensor samples a caller passes.
Gyroscopes ==
    { <<zero, zero, zero>>,
      <<FromRatio(12, 10), FromRatio(6, 10), FromRatio(5, 100)>> }
Accelerometers ==
    { <<zero, zero, zero>>,
      <<zero, zero, one>>,
      <<FromRatio(66, 1000), FromRatio(979, 1000), FromRatio(-13, 1000)>> }
Magnetometers ==
    { <<zero, zero, zero>>,
      <<FromRatio(172, 1000), FromRatio(-454, 1000), FromRatio(-41, 1000)>> }

\* A start orientation a caller assigns: UnitQuaternion::new_normalize of the
\* start quaternion of tests/unit.rs.
StartQuat ==
    Normalize(QuaternionNew(FromRatio(725, 1000), FromRatio(687, 1000),
                            FromRatio(-45, 1000), FromRatio(1, 1000)))
StartQuats == {Identity, StartQuat}

\* Madgwick instances: default() and new(), then new_with_quat() or the
\* assignment of the pub field quat.
MadgwickInstances ==
    { [m EXCEPT !.quat = q] :
        m \in { Madgwick_default,
                Madgwick_new(FromRatio(1, 8), FromRatio(1, 2), zero) },
        q \in StartQuats }
    \cup { Madgwick_new_with_quat(FromRatio(1, 8), FromRatio(1, 2), zero, StartQuat) }

\* Mahony instances: default(), new(), new_with_quat(), the assignment of the
\* pub field quat, and an accumulator assigned through e_int_mut().
\* new_with_quat() takes a Quaternion, which need not be a unit quaternion.
MahonyInstances ==
    { [m EXCEPT !.quat = q, !.e_int = e] :
        m \in { Mahony_default,
                Mahony_new(FromRatio(1, 8), FromRatio(1, 2), FromRatio(1, 4)) },
        q \in StartQuats,
        e \in { <<zero, zero, zero>>, <<FromRatio(1, 8), zero, FromRatio(-1, 16)>> } }
    \cup { Mahony_new_with_quat(FromRatio(1, 8), FromRatio(1, 2), FromRatio(1, 4),
                                StartQuat),
           Mahony_new_with_quat(FromRatio(1, 8), FromRatio(1, 2), FromRatio(1, 4),
                                QuaternionNew(two, zero, zero, zero)) }

Init ==
    /\ ahrs \in MadgwickInstances \cup MahonyInstances
    /\ skip = ahrs
    /\ twin = NoTwin
    /\ res = NoRes
    /\ tres = NoRes
    /\ last = NoCall
    /\ calls = 0
    /\ nfail = 0

\* The call op(gyroscope, accelerometer, magnetometer) on the instance self.
Apply(self, op, gyroscope, accelerometer, magnetometer) ==
    IF self.kind = "Madgwick" THEN
        CASE op = "update" ->
               Madgwick_update(self, gyroscope, accelerometer, magnetometer)
          [] op = "update_imu" -> Madgwick_update_imu(self, gyroscope, accelerometer)
          [] op = "update_gyro" -> Madgwick_update_gyro(self, gyroscope)
    ELSE
        CASE op = "update" ->
               Mahony_update(self, gyroscope, accelerometer, magnetometer)
          [] op = "update_imu" -> Mahony_update_imu(self, gyroscope, accelerometer)

\* The caller has made the call on ahrs, which gave r; it makes the same call
\* on the clone of ahrs, and on skip unless the call failed.
Called(op, gyroscope, accelerometer, magnetometer, r) ==
    /\ ahrs' = r.self
    /\ res' = r.res
    /\ last' = [op |-> op, gyroscope |-> gyroscope,
                accelerometer |-> accelerometer,
                magnetometer |-> magnetometer, pre |-> ahrs]
    /\ skip' = IF r.res.ok
               THEN Apply(skip, op, gyroscope, accelerometer, magnetometer).self
               ELSE skip
    /\ \E t \in IF twin = NoTwin THEN {[self |-> NoTwin, res |-> NoRes]}
                ELSE {Apply(twin, op, gyroscope, accelerometer, magnetometer)} :
          twin' = t.self /\ tres' = t.res
    /\ calls' = calls + 1
    /\ nfail' = IF r.res.ok THEN nfail ELSE nfail + 1

Call(op, gyroscope, accelerometer, magnetometer) ==
    /\ calls < MaxCalls
    /\ \E r \in {Apply(ahrs, op, gyroscope, accelerometer, magnetometer)} :
          Called(op, gyroscope, accelerometer, magnetometer, r)

MadgwickUpdate ==
    /\ ahrs.kind = "Madgwick"
    /\ \E g \in Gyroscopes, a \in Accelerometers, m \in Magnetometers :
          Call("update", g, a, m)

MadgwickUpdateImu ==
    /\ ahrs.kind = "Madgwick"
    /\ \E g \in Gyroscopes, a \in Accelerometers : Call("update_imu", g, a, <<>>)

MadgwickUpdateGyro ==
    /\ ahrs.kind = "Madgwick"
    /\ \E g \in Gyroscopes : Call("update_gyro", g, <<>>, <<>>)

MahonyUpdate ==
    /\ ahrs.kind = "Mahony"
    /\ \E g \in Gyroscopes, a \in Accelerometers, m \in Magnetometers :
          Call("update", g, a, m)

MahonyUpdateImu ==
    /\ ahrs.kind = "Mahony"
    /\ \E g \in Gyroscopes, a \in Accelerometers : Call("update_imu", g, a, <<>>)

\* let twin = ahrs.clone();
Clone ==
    /\ twin = NoTwin
    /\ twin' = IF ahrs.kind = "Madgwick" THEN Madgwick_clone(ahrs)
               ELSE Mahony_clone(ahrs)
    /\ tres' = NoRes
    /\ UNCHANGED <<ahrs, res, last, skip, calls, nfail>>

Next ==
    \/ MadgwickUpdate
    \/ MadgwickUpdateImu
    \/ MadgwickUpdateGyro
    \/ MahonyUpdate
    \/ MahonyUpdateImu
    \/ Clone

Spec == Init /\ [][Next]_vars

(***************************************************************************)
(* Properties.                                                             *)
(***************************************************************************)

ZeroVector == <<zero, zero, zero>>
pre == last.pre
OnMadgwick(op) == last.op = op /\ pre.kind = "Madgwick"
OnMahony(op) == last.op = op /\ pre.kind = "Mahony"

\* C1: Madgwick::update with a zero accelerometer, whatever the gyroscope and
\* the magnetometer, returns AccelerometerNormZero and leaves the stored
\* quaternion as it was before the call.
C1_UpdateAccelZero ==
    (OnMadgwick("update") /\ last.accelerometer = ZeroVector)
        => /\ res = Err("AccelerometerNormZero")
           /\ ahrs.quat = pre.quat

\* The case of C1 after an earlier successful call, with a zero magnetometer
\* too and a turning gyroscope.
C1_Witness ==
    /\ OnMadgwick("update")
    /\ last.accelerometer = ZeroVector
    /\ last.magnetometer = ZeroVector
    /\ last.gyroscope # ZeroVector
    /\ calls = 2 /\ nfail = 1
    /\ pre.quat # Identity /\ pre.quat # StartQuat

\* C2: Madgwick::update with a non-zero accelerometer and a zero magnetometer
\* returns MagnetometerNormZero and leaves the stored quaternion as it was.
C2_UpdateMagZero ==
    (/\ OnMadgwick("update")
     /\ last.accelerometer # ZeroVector
     /\ last.magnetometer = ZeroVector)
        => /\ res = Err("MagnetometerNormZero")
           /\ ahrs.quat = pre.quat

C2_Witness ==
    /\ OnMadgwick("update")
    /\ last.accelerometer # ZeroVector
    /\ last.magnetometer = ZeroVector
    /\ last.gyroscope # ZeroVector
    /\ calls = 2 /\ nfail = 1
    /\ pre.quat # Identity /\ pre.quat # StartQuat

\* C3: Madgwick::update_imu with a zero accelerometer returns
\* AccelerometerNormZero and leaves the stored quaternion as it was.
C3_UpdateImuAccelZero ==
    (OnMadgwick("update_imu") /\ last.accelerometer = ZeroVector)
        => /\ res = Err("AccelerometerNormZero")
           /\ ahrs.quat = pre.quat

C3_Witness ==
    /\ OnMadgwick("update_imu")
    /\ last.accelerometer = ZeroVector
    /\ last.gyroscope # ZeroVector
    /\ calls = 2 /\ nfail = 1
    /\ pre.quat # Identity /\ pre.quat # StartQuat

\* C4: Mahony fails as Madgwick does: update and update_imu with a zero
\* accelerometer return AccelerometerNormZero, and update with a non-zero
\* accelerometer and a zero magnetometer returns MagnetometerNormZero, so the
\* error tells which sensor vector was degenerate.
C4_MahonyErrorsNamed ==
    /\ ((OnMahony("update") \/ OnMahony("update_imu"))
          /\ last.accelerometer = ZeroVector)
        => res = Err("AccelerometerNormZero")
    /\ (/\ OnMahony("update")
        /\ last.accelerometer # ZeroVector
        /\ last.magnetometer = ZeroVector)
        => res = Err("MagnetometerNormZero")

\* C5: a Mahony update or update_imu that returns an error leaves the stored
\* quaternion and e_int as they were, whatever ki and e_int are.
C5_MahonyFailureKeepsState ==
    ((OnMahony("update") \/ OnMahony("update_imu")) /\ ~res.ok)
        => /\ ahrs.quat = pre.quat
           /\ ahrs.e_int = pre.e_int

\* A failed update on an instance with ki = 0 whose accumulator is not zero.
C5_Witness ==
    /\ OnMahony("update")
    /\ ~res.ok
    /\ pre.ki = zero
    /\ pre.e_int # ZeroVector
    /\ last.accelerometer # ZeroVector

\* C6: the state after a sequence of calls is the state after the same
\* sequence with every failing call removed.
C6_SkippingFailuresSameState ==
    /\ skip.quat = ahrs.quat
    /\ ahrs.kind = "Mahony" => skip.e_int = ahrs.e_int

\* A successful call after a failed one.
C6_Witness ==
    /\ nfail = 1 /\ calls = 2
    /\ res.ok
    /\ ahrs.quat # pre.quat

\* Unit norm within the tolerance of the scalars: one unit in the last place.
UnitNorm(q) == ~IsNaNV(q) /\ Abs(Norm(q) - one) <= 1

C8_CloneEvolvesAlike ==
    twin # NoTwin
        => /\ twin = ahrs
           /\ tres # NoRes => tres = res

\* A clone taken of a Madgwick instance whose delta is not the default, then
\* fed a call that fails and a call that succeeds.
C8_Witness ==
    /\ twin # NoTwin
    /\ twin.kind = "Madgwick"
    /\ twin.delta # Madgwick_default.delta
    /\ calls = 2 /\ nfail = 1
    /\ tres.ok
    /\ twin.quat # pre.quat

\* The error e of the last Mahony call, from the state before it.
LastMahonyError ==
    IF last.op = "update"
    THEN Mahony_update_e(pre.quat, TryNormalize(last.accelerometer, zero).v,
                         TryNormalize(last.magnetometer, zero).v)
    ELSE Mahony_update_imu_e(pre.quat, TryNormalize(last.accelerometer, zero).v)

\* C9: on a successful Mahony update or update_imu the new e_int is the old
\* e_int plus e * sample_period if ki > 0 and the zero vector otherwise, and
\* the quaternion is integrated from the gyroscope corrected with that new
\* e_int.
C9_IntegralAccumulator ==
    ((OnMahony("update") \/ OnMahony("update_imu")) /\ res.ok)
        => /\ pre.ki > zero
                => ahrs.e_int = VAdd(pre.e_int,
                                     VScale(LastMahonyError, pre.sample_period))
           /\ ~(pre.ki > zero) => ahrs.e_int = ZeroVector
           /\ ahrs.quat =
                Normalize(VAdd(pre.quat,
                    VScale(VScale(QMul(pre.quat,
                        FromParts(zero,
                            VAdd(VAdd(last.gyroscope,
                                      VScale(LastMahonyError, pre.kp)),
                                 VScale(ahrs.e_int, pre.ki)))), half),
                        pre.sample_period)))

\* A successful update with ki = 0 on an accumulator that was not zero.
C9_Witness ==
    /\ OnMahony("update")
    /\ res.ok
    /\ pre.ki = zero
    /\ pre.e_int # ZeroVector
    /\ ahrs.e_int = ZeroVector
    /\ LastMahonyError # ZeroVector

\* Gains and stabilizers other than the instance's own.
OtherGains == {zero, FromRatio(1, 10), FromRatio(1, 2), one}

\* C10: Madgwick::update_gyro returns no error; it stores, and returns,
\* normalize(q + 0.5 * (q * (0, gyro)) * sample_period), which is the same
\* whatever beta and delta are.
C10_UpdateGyro ==
    OnMadgwick("update_gyro")
        => /\ res.ok
           /\ res.quat = ahrs.quat
           /\ ahrs.quat =
                Normalize(VAdd(pre.quat,
                    VScale(VScale(QMul(pre.quat, FromParts(zero, last.gyroscope)),
                                  half),
                           pre.sample_period)))
           /\ \A beta \in OtherGains, delta \in OtherGains :
                Madgwick_update_gyro([pre EXCEPT !.beta = beta, !.delta = delta],
                                     last.gyroscope).res = res

\* update_gyro with a turning gyroscope, after an earlier successful call.
C10_Witness ==
    /\ OnMadgwick("update_gyro")
    /\ last.gyroscope # ZeroVector
    /\ calls = 2 /\ nfail = 0
    /\ pre.beta > zero
    /\ ahrs.quat # pre.quat
    /\ pre.quat # Identity /\ pre.quat # StartQuat

\* The vectors nearest to zero: every coordinate is 0 or one unit in the
\* last place.
SmallVectors == { <<x, y, z>> : x, y, z \in {-1, 0, 1} }
NonZeroNormalizes ==
    \A v \in SmallVectors : TryNormalize(v, zero).some <=> v # ZeroVector

C12_DefaultConstruction ==
    /\ Madgwick_default =
         [kind |-> "Madgwick", sample_period |-> FromRatio(1, 256),
          beta |-> FromRatio(1, 10), delta |-> FromRatio(1, 10^9),
          quat |-> Identity]
    /\ Mahony_default =
         [kind |-> "Mahony", sample_period |-> FromRatio(1, 256),
          kp |-> FromRatio(1, 2), ki |-> zero, e_int |-> ZeroVector,
          quat |-> Identity]
    /\ \A sample_period \in OtherGains, g1 \in OtherGains, g2 \in OtherGains :
         /\ Madgwick_new(sample_period, g1, g2) =
              [kind |-> "Madgwick", sample_period |-> sample_period,
               beta |-> g1, delta |-> g2, quat |-> Identity]
         /\ Mahony_new(sample_period, g1, g2) =
              [kind |-> "Mahony", sample_period |-> sample_period,
               kp |-> g1, ki |-> g2, e_int |-> ZeroVector, quat |-> Identity]
    /\ (ahrs.kind = "Madgwick" /\ ahrs.sample_period = FromRatio(1, 256))
         => ahrs.beta = FromRatio(1, 10) /\ ahrs.delta = FromRatio(1, 10^9)
    /\ (ahrs.kind = "Mahony" /\ ahrs.sample_period = FromRatio(1, 256))
         => ahrs.kp = FromRatio(1, 2) /\ ahrs.ki = zero

\* The caller starts from Madgwick::default(), before any call.
C12_Witness ==
    /\ calls = 0
    /\ ahrs = Madgwick_default
    /\ ahrs.delta > zero
    /\ ahrs.quat = QuaternionNew(one, zero, zero, zero)

\* The single-step regression of tests/unit.rs: start state, inputs and the
\* quaternion expected.
RegressionStart == [Madgwick_default EXCEPT !.quat = StartQuat]
RegressionGyroscope == <<FromRatio(12, 10), FromRatio(6, 10), FromRatio(5, 100)>>
RegressionAccelerometer ==
    <<FromRatio(66, 1000), FromRatio(979, 1000), FromRatio(-13, 1000)>>
RegressionMagnetometer ==
    <<FromRatio(172, 1000), FromRatio(-454, 1000), FromRatio(-41, 1000)>>
RegressionExpected ==
    QuaternionNew(FromRatio(72355, 100000), FromRatio(68886, 100000),
                  FromRatio(-4413, 100000), FromRatio(184, 100000))
\* Every coordinate within one unit in the last place.
Near(p, q) == ~IsNaNV(p) /\ \A n \in DOMAIN q : Abs(p[n] - q[n]) <= 1

\* The step of the last Madgwick update, from the state before it: J_t * F
\* divided by its norm plus delta, as a quaternion whose w is step[0].
LastUpdateStep ==
    LET accel == TryNormalize(last.accelerometer, zero).v
        mag == TryNormalize(last.magnetometer, zero).v
        step == StabilizedStep(
                    Madgwick_update_prod(pre.quat,
                                         MagneticReference(pre.quat, mag),
                                         accel, mag),
                    pre.delta)
    IN  QuaternionNew(At(step, 0), At(step, 1), At(step, 2), At(step, 3))

\* C13: a successful Madgwick::update from quaternion q stores
\* normalize(q + (0.5 * q * (0, gyro) - beta * step) * sample_period), step
\* being J_t * F over its stabilized norm; and the default filter started at
\* the quaternion of the regression, fed the inputs of the regression, stores
\* the quaternion the regression expects, to the precision of the scalars.
C13_UpdateSingleStep ==
    (OnMadgwick("update") /\ res.ok /\ ~IsNaNV(pre.quat))
        => /\ ahrs.quat =
                Normalize(VAdd(pre.quat,
                    VScale(VSub(VScale(QMul(pre.quat,
                                            FromParts(zero, last.gyroscope)),
                                       half),
                                VScale(LastUpdateStep, pre.beta)),
                           pre.sample_period)))
           /\ (/\ pre = RegressionStart
               /\ last.gyroscope = RegressionGyroscope
               /\ last.accelerometer = RegressionAccelerometer
               /\ last.magnetometer = RegressionMagnetometer)
                => Near(ahrs.quat, RegressionExpected)

\* The regression step has been made, and it moved the quaternion.
C13_Witness ==
    /\ OnMadgwick("update")
    /\ res.ok
    /\ pre = RegressionStart
    /\ last.gyroscope = RegressionGyroscope
    /\ last.accelerometer = RegressionAccelerometer
    /\ last.magnetometer = RegressionMagnetometer
    /\ ~Near(pre.quat, RegressionExpected)
    /\ Near(ahrs.quat, RegressionExpected)

\* prod = J_t * F of the last Madgwick update or update_imu, from the state
\* before it.
LastProd ==
    LET accel == TryNormalize(last.accelerometer, zero).v
    IN  IF last.op = "update"
        THEN LET mag == TryNormalize(last.magnetometer, zero).v
             IN  Madgwick_update_prod(pre.quat, MagneticReference(pre.quat, mag),
                                      accel, mag)
        ELSE Madgwick_update_imu_prod(pre.quat, accel)
IsZeroV(v) == \A n \in DOMAIN v : v[n] = zero

\* C14: in Madgwick update and update_imu the step is J_t * F divided by
\* (its norm + delta) and that step is the one integrated; with delta > 0 the
\* norm of the step does not exceed 1, and a J_t * F that is exactly zero
\* gives the zero step, not a division by zero: update_imu then stores what
\* update_gyro stores from the same state and gyroscope, and with a zero
\* gyroscope it leaves the quaternion as it was.
C14_StabilizedStep ==
    (/\ (OnMadgwick("update") \/ OnMadgwick("update_imu"))
     /\ res.ok
     /\ ~IsNaNV(pre.quat))
        => LET prod == LastProd
               step == Unscale(prod, Norm(prod) + pre.delta)
           IN  /\ ahrs.quat =
                    Integrate(pre.quat,
                              RateOfChange(pre.quat, last.gyroscope, step,
                                           pre.beta),
                              pre.sample_period)
               /\ pre.delta > zero => ~IsNaNV(step) /\ Norm(step) <= one
               /\ (pre.delta > zero /\ IsZeroV(prod))
                    => /\ IsZeroV(step)
                       /\ last.op = "update_imu"
                            => /\ ahrs = Madgwick_update_gyro(pre, last.gyroscope).self
                               /\ last.gyroscope = ZeroVector
                                    => ahrs.quat = pre.quat

\* update_imu on a stabilized filter whose gradient is exactly zero, with a
\* turning gyroscope.
C14_Witness ==
    /\ OnMadgwick("update_imu")
    /\ res.ok
    /\ pre.delta > zero
    /\ IsZeroV(LastProd)
    /\ last.gyroscope # ZeroVector
    /\ ahrs.quat # pre.quat
    /\ ~IsNaNV(ahrs.quat)

\* C15: update validates the accelerometer before the magnetometer: for
\* either filter, update with a zero accelerometer and a zero magnetometer
\* returns AccelerometerNormZero, and MagnetometerNormZero is returned only
\* when the accelerometer is not zero.
C15_AccelCheckedFirst ==
    last.op = "update"
        => /\ (last.accelerometer = ZeroVector /\ last.magnetometer = ZeroVector)
                => res = Err("AccelerometerNormZero")
           /\ res = Err("MagnetometerNormZero")
                => last.accelerometer # ZeroVector

\* The part of C15 that is about Madgwick::update alone.
C15_MadgwickAccelCheckedFirst ==
    OnMadgwick("update")
        => /\ (last.accelerometer = ZeroVector /\ last.magnetometer = ZeroVector)
                => res = Err("AccelerometerNormZero")
           /\ res = Err("MagnetometerNormZero")
                => last.accelerometer # ZeroVector

\* Mahony::update has been called with both vectors zero.
C15_Witness ==
    /\ OnMahony("update")
    /\ last.accelerometer = ZeroVector
    /\ last.magnetometer = ZeroVector
    /\ ~res.ok
    /\ ahrs = pre

\* C16: no update, update_imu or update_gyro, successful or failed, changes
\* sample_period, beta or delta of a Madgwick filter or sample_period, kp or
\* ki of a Mahony filter: the Madgwick operations assign the quaternion only,
\* the Mahony operations the quaternion and e_int only; and the outcome of a
\* call is the outcome of the same call on the fields the instance held
\* before it, however many calls came earlier.
C16_UpdateFrame ==
    last.op # "none"
        => /\ pre.kind = "Madgwick" => ahrs = [pre EXCEPT !.quat = ahrs.quat]
           /\ pre.kind = "Mahony"
                => ahrs = [pre EXCEPT !.quat = ahrs.quat, !.e_int = ahrs.e_int]
           /\ ~res.ok => ahrs = pre
           /\ Apply(pre, last.op, last.gyroscope, last.accelerometer,
                    last.magnetometer) = [self |-> ahrs, res |-> res]

\* A second successful update on a Madgwick filter with a non-default gain,
\* which moved the quaternion.
C16_Witness ==
    /\ OnMadgwick("update")
    /\ res.ok
    /\ calls = 2 /\ nfail = 0
    /\ pre.beta # Madgwick_default.beta
    /\ ahrs.quat # pre.quat
    /\ ahrs.beta = pre.beta /\ ahrs.delta = pre.delta
    /\ ahrs.sample_period = pre.sample_period

\* C17: in every reachable state of an instance built by default(), new() or
\* new_with_quat(), the state before the first update included, the stored
\* quaternion has unit norm, for either filter and for every quaternion a
\* caller can pass to new_with_quat().
C17_UnitNormStructural == UnitNorm(ahrs.quat)

\* A Mahony instance built by new_with_quat() with a quaternion of norm 2
\* has made its first successful update, which normalized the quaternion.
C17_Witness ==
    /\ OnMahony("update_imu")
    /\ res.ok
    /\ calls = 1
    /\ Norm(pre.quat) = two
    /\ UnitNorm(ahrs.quat)

\* == of two instances of the same filter, and of two results.
Eq(self, rhs) ==
    /\ self.kind = rhs.kind
    /\ IF self.kind = "Madgwick" THEN Madgwick_eq(self, rhs) ELSE Mahony_eq(self, rhs)
ResEq(r, s) == r.ok = s.ok /\ r.err = s.err /\ (r.ok => QuatEq(r.quat, s.quat))

\* Instances that differ from self in one parameter.
Peers(self) ==
    IF self.kind = "Madgwick"
    THEN { [self EXCEPT !.delta = g] : g \in OtherGains }
         \cup { [self EXCEPT !.beta = g] : g \in OtherGains }
    ELSE { [self EXCEPT !.ki = g] : g \in OtherGains }
         \cup { [self EXCEPT !.kp = g] : g \in OtherGains }

\* C18: == is a congruence for update and update_imu: two instances that
\* compare equal return the same result from the same call and compare equal
\* again after it, so == looks at every field an update reads, delta
\* included.
C18_EqualityCongruence ==
    (last.op \in {"update", "update_imu"} /\ res.ok)
        => \A other \in Peers(pre) :
              Eq(pre, other)
                => LET r == Apply(other, last.op, last.gyroscope,
                                  last.accelerometer, last.magnetometer)
                   IN  ResEq(r.res, res) /\ Eq(r.self, ahrs)

\* Two Madgwick instances that compare equal and differ in delta have been
\* fed the same update and no longer compare equal.
C18_Witness ==
    /\ OnMadgwick("update")
    /\ res.ok
    /\ ~IsNaNV(ahrs.quat)
    /\ \E other \in Peers(pre) :
          /\ Eq(pre, other)
          /\ other.delta # pre.delta
          /\ LET r == Apply(other, last.op, last.gyroscope,
                            last.accelerometer, last.magnetometer)
             IN  ~IsNaNV(r.self.quat) /\ ~Eq(r.self, ahrs)

====
